---- MODULE Spec2Model ----
(***************************************************************************)
(* The ticket issuance and admission core of src/main.py:                  *)
(*   create_razorpay_order  (createPurchaseIntent)                         *)
(*   verify_payment         (confirmPayment)                               *)
(*   scan_qr                (validateAdmission)                            *)
(*   send_email_and_whatsapp (the notification thread of a confirmation)   *)
(* over the tables TicketClassification, TicketIssue, TicketIssueDetails.  *)
(* Every request runs on its own connection (core/database.py) with        *)
(* autocommit off: plain SELECTs read committed rows without locking, an   *)
(* UPDATE takes the row's lock until the connection commits or rolls back, *)
(* and uncommitted writes are private to the connection.  The handlers'    *)
(* statements are the steps; a schedule in which every SELECT precedes     *)
(* the other connection's UPDATE is one that a locking READ COMMITTED      *)
(* engine and a multi-version engine both allow.                           *)
(***************************************************************************)
EXTENDS Integers, Sequences, FiniteSets, TLC

(* ------------------------------ bounds --------------------------------- *)
MaxCount == 2
MaxMin == 2

\* The requests in flight: each is handled once, on a thread and a database
\* connection of its own.
Scanners == {"s1", "s2"}
Verifiers == {"v1", "v2"}
Creators == {"c1", "c2"}
Enquirers == {"e1", "e2"}

(* ------------------------- python values -------------------------------- *)
\* An optional string: None, or a string as a sequence of chunks.
None == [isNone |-> TRUE, chars |-> << >>]
Str(s) == [isNone |-> FALSE, chars |-> s]
\* Python truthiness of an optional string: None and "" are falsy.
Truthy(v) == ~v.isNone /\ Len(v.chars) > 0
\* str.startswith
StartsWith(v, prefix) ==
    /\ Len(v.chars) >= Len(prefix)
    /\ SubSeq(v.chars, 1, Len(prefix)) = prefix

PayPrefix == <<"pay_">>
\* The payment ids a client may send as razorpay_payment_id.
Tokens == {None, Str(<< >>), Str(<<"pay_", "A">>), Str(<<"pay_", "B">>),
           Str(<<"order_", "A">>)}

\* One "|"-separated field of a decrypted QR text: a decimal number or not.
Num(n) == [num |-> TRUE, val |-> n]
Junk == [num |-> FALSE, val |-> 0]

(* --------------------------- python floats ------------------------------ *)
\* A non-negative IEEE-754 double: the 53-bit significand, held in three
\* 18-bit limbs so that no intermediate leaves TLC's integers, times 2^exp.
\* A normal value has its top bit in hi (Pow2(16) <= hi < Pow2(17)); zero
\* has all limbs 0.  Every operation rounds to nearest, ties to even.
RECURSIVE Pow2(_)
Pow2(k) == IF k = 0 THEN 1 ELSE 2 * Pow2(k - 1)
Limb == Pow2(18)
TopBit == Pow2(16)
Float(hi, mid, lo, exp) == [hi |-> hi, mid |-> mid, lo |-> lo, exp |-> exp]
FloatZero == Float(0, 0, 0, 0)
\* The significand plus one unit in the last place.
FloatUp(f) ==
    IF f.lo + 1 < Limb THEN Float(f.hi, f.mid, f.lo + 1, f.exp)
    ELSE IF f.mid + 1 < Limb THEN Float(f.hi, f.mid + 1, 0, f.exp)
    ELSE IF f.hi + 1 < 2 * TopBit THEN Float(f.hi + 1, 0, 0, f.exp)
    ELSE Float(TopBit, 0, 0, f.exp + 1)
\* f, kept or moved up by what was cut off: rest out of whole.
FloatRound(f, rest, whole) ==
    IF 2 * rest > whole \/ (2 * rest = whole /\ f.lo % 2 = 1)
      THEN FloatUp(f) ELSE f
\* The least t with (n * 2^t) \div d >= TopBit.
RECURSIVE ScaleUp(_, _, _)
ScaleUp(n, d, t) ==
    IF (n * Pow2(t)) \div d >= TopBit THEN t ELSE ScaleUp(n, d, t + 1)
\* The least k with h \div 2^k < 2 * TopBit.
RECURSIVE ScaleDown(_, _)
ScaleDown(h, k) ==
    IF h \div Pow2(k) < 2 * TopBit THEN k ELSE ScaleDown(h, k + 1)
\* float(Decimal) of a DECIMAL column value given in hundredths: the double
\* nearest to cents / 100, by long division over the limbs.
FloatOfCents(cents) ==
    IF cents = 0 THEN FloatZero
    ELSE LET t == ScaleUp(cents, 100, 0)
             n == cents * Pow2(t)
             r0 == n % 100
             r1 == (r0 * Limb) % 100
             r2 == (r1 * Limb) % 100
         IN  FloatRound(Float(n \div 100, (r0 * Limb) \div 100,
                              (r1 * Limb) \div 100, 0 - (36 + t)),
                        r2, 100)
\* float * int for a small non-negative int (which converts exactly).
FloatTimes(f, n) ==
    IF n = 0 \/ f = FloatZero THEN FloatZero
    ELSE LET l == f.lo * n
             m == f.mid * n + l \div Limb
             h == f.hi * n + m \div Limb
             k == ScaleDown(h, 0)
             cut == Pow2(k)
             lo == l % Limb
             mid == m % Limb
         IN  FloatRound(Float(h \div cut,
                              mid \div cut + (h % cut) * (Limb \div cut),
                              lo \div cut + (mid % cut) * (Limb \div cut),
                              f.exp + k),
                        lo % cut, cut)
\* int(float): the integer part, for values below 2^31.
FloatToInt(f) ==
    LET s == 0 - f.exp IN
      IF f = FloatZero THEN 0
      ELSE IF s >= 36 THEN f.hi \div Pow2(s - 36)
      ELSE f.hi * Pow2(36 - s) + f.mid \div Pow2(s - 18)

(* ------------------------- credential codec ----------------------------- *)
\* utils.utils is not part of the sources at hand: the codec is modelled
\* from its contract, as a keyed reversible obfuscation of the text
\* "<TicketIssueId>|<TicketIssueDetailsId>|<timestamp>".
SecretKey == 7
Reverse(s) == [k \in 1..Len(s) |-> s[Len(s) + 1 - k]]
Obfuscate(fields) ==
    Reverse([k \in 1..Len(fields) |->
                [num |-> fields[k].num, val |-> fields[k].val + SecretKey]])
Clarify(body) ==
    Reverse([k \in 1..Len(body) |->
                [num |-> body[k].num, val |-> body[k].val - SecretKey]])
\* A scanned payload (or a QRCode column): kind is "null" (NULL / missing),
\* "empty", "blank" (whitespace only), "garbage" (not produced by the codec)
\* or "cipher".
Payload(kind, body) == [kind |-> kind, body |-> body]
NullQr == Payload("null", << >>)
EmptyQr == Payload("empty", << >>)
BlankQr == Payload("blank", << >>)
GarbageQr == Payload("garbage", << >>)
Encrypt(fields) == Payload("cipher", Obfuscate(fields))
generate_qr_string(ticket_issue_id, details_id, ts) ==
    Encrypt(<<Num(ticket_issue_id), Num(details_id), Num(ts)>>)
\* decrypt_qr_data raises on anything the codec did not produce.
DecryptRaises(qr) == qr.kind # "cipher"
decrypt_qr_data(qr) == Clarify(qr.body)

(* ------------------------------ state ----------------------------------- *)
VARIABLES
    rateRow,            \* TicketClassification row of the event, << >> if none
    TicketIssue,        \* committed TicketIssue rows, by TicketIssueId
    TicketIssueDetails, \* committed TicketIssueDetails rows (a set of records)
    nextDetailsId,      \* identity counter of TicketIssueDetails
    clock,              \* the database clock (GETDATE / datetime.now)
    issueLock,          \* TicketIssue row locks: the verifiers holding them
    detailsLock,        \* TicketIssueDetails row locks: details id -> scanners
    scanPc, scanBody, scanTx, scanResult,
    scanLate,           \* history: the unit was already admitted when the call began
    scanQr,             \* history: the qr_code the request posted
    verPc, verBody, verRow, verI, verTx, verPdf, verResult,
    verStartTxn,        \* history: the settlement reference when the call began
    verRetry,           \* history: a call on the intent had failed by then
    verStale,           \* history: MinimumTickets was above TicketCount by then
    dispatched,         \* notification threads started
    thrPc, thrI,        \* the notification thread a confirmation started
    thrLog,             \* the deliveries that thread has attempted
    crPc, crBody, crCount, crTotal, crOrder, crResult,
    crAtStart,          \* history: orders and rows when the call began
    orders,             \* payment-gateway orders created (their amounts)
    enqPc, enqBody, enqTotal, enqResult,
    TicketEnquiry       \* committed TicketEnquiry rows

dbVars == <<rateRow, TicketIssue, TicketIssueDetails, nextDetailsId, clock,
            issueLock, detailsLock>>
scanVars == <<scanPc, scanBody, scanTx, scanResult, scanLate, scanQr>>
thrVars == <<thrPc, thrI, thrLog>>
verVars == <<verPc, verBody, verRow, verI, verTx, verPdf, verResult,
             verStartTxn, verRetry, verStale, dispatched, thrVars>>
crVars == <<crPc, crBody, crCount, crTotal, crOrder, crResult,
           crAtStart, orders>>
enqVars == <<enqPc, enqBody, enqTotal, enqResult, TicketEnquiry>>
vars == <<dbVars, scanVars, verVars, crVars, enqVars>>

(* ------------------------------ helpers --------------------------------- *)
ExistingIssues == DOMAIN TicketIssue
UnitsOf(issue) == {u \in TicketIssueDetails : u.TicketIssueId = issue}
UnitById(id) == {u \in TicketIssueDetails : u.TicketIssueDetailsId = id}
\* dict.get(key, default) on an optional entry (<< >> when the key is absent)
BodyGet(entry, default) == IF entry = << >> THEN default ELSE entry[1]

\* TicketClassification.TicketRate is a DECIMAL column: its values are held
\* in hundredths (500.00 and 19.99).
TicketRates == {50000, 1999}
Init ==
    /\ rateRow \in {[TicketRate |-> r, MinimumTickets |-> m] :
                        r \in TicketRates, m \in 0..MaxMin}
    /\ TicketIssue = << >>
    /\ TicketIssueDetails = {}
    /\ nextDetailsId = 1
    /\ clock = 1
    /\ issueLock = {}
    /\ detailsLock = {}
    /\ scanPc = [s \in Scanners |-> "idle"]
    /\ scanBody = [s \in Scanners |-> << >>]
    /\ scanTx = [s \in Scanners |-> << >>]
    /\ scanResult = [s \in Scanners |-> << >>]
    /\ scanLate = [s \in Scanners |-> FALSE]
    /\ scanQr = [s \in Scanners |-> << >>]
    /\ verPc = [p \in Verifiers |-> "idle"]
    /\ verBody = [p \in Verifiers |-> << >>]
    /\ verRow = [p \in Verifiers |-> << >>]
    /\ verI = [p \in Verifiers |-> 0]
    /\ verTx = [p \in Verifiers |-> << >>]
    /\ verPdf = [p \in Verifiers |-> << >>]
    /\ verResult = [p \in Verifiers |-> << >>]
    /\ verStartTxn = [p \in Verifiers |-> None]
    /\ verRetry = [p \in Verifiers |-> FALSE]
    /\ verStale = [p \in Verifiers |-> FALSE]
    /\ thrPc = [p \in Verifiers |-> "none"]
    /\ thrI = [p \in Verifiers |-> 0]
    /\ thrLog = [p \in Verifiers |-> << >>]
    /\ dispatched = 0
    /\ crPc = [c \in Creators |-> "idle"]
    /\ crBody = [c \in Creators |-> << >>]
    /\ crCount = [c \in Creators |-> << >>]
    /\ crTotal = [c \in Creators |-> << >>]
    /\ crOrder = [c \in Creators |-> << >>]
    /\ crResult = [c \in Creators |-> << >>]
    /\ crAtStart = [c \in Creators |-> << >>]
    /\ orders = << >>
    /\ enqPc = [e \in Enquirers |-> "idle"]
    /\ enqBody = [e \in Enquirers |-> << >>]
    /\ enqTotal = [e \in Enquirers |-> << >>]
    /\ enqResult = [e \in Enquirers |-> << >>]
    /\ TicketEnquiry = << >>

(* ------------------------- scan_qr (/qrScanner) -------------------------- *)
ScanReply(status, message, ids) ==
    <<[status |-> status, message |-> message, ids |-> ids]>>

\* The payloads a scanner device may post: nothing, blanks, garbage, the
\* credential of an issued unit, and texts encrypted with the key that have
\* the wrong shape, an unknown unit, a non-numeric field or, for an issued
\* unit, the id of another intent.
ScanInputs ==
    {NullQr, EmptyQr, BlankQr, GarbageQr}
    \cup {u.QRCode : u \in TicketIssueDetails}
    \cup {Encrypt(<<Num(1), Num(nextDetailsId)>>),
          Encrypt(<<Num(1), Junk, Num(clock)>>),
          Encrypt(<<Num(1), Num(nextDetailsId), Num(clock)>>)}
    \cup {Encrypt(<<Junk, Num(u.TicketIssueDetailsId), Num(clock)>>) :
             u \in TicketIssueDetails}
    \cup {Encrypt(<<Num(u.TicketIssueId + 1), Num(u.TicketIssueDetailsId),
                    Num(clock)>>) : u \in TicketIssueDetails}

\* IsEmptyInput without the strip(): "not qr_code" alone.
IsEmptyInputNoStrip(qr) == qr.kind \in {"null", "empty"}
\* "not qr_code or not qr_code.strip()"
IsEmptyInput(qr) == qr.kind \in {"null", "empty", "blank"}
\* "ticket_issue_id, details_id, ts = decoded.split('|'); int(details_id)"
SplitRaises(fields) == Len(fields) # 3 \/ ~fields[2].num

\* Lines 299-326: the request body is read, decrypted and split.
ScanStart(s, qr) ==
    /\ scanPc[s] = "idle"
    /\ scanQr' = [scanQr EXCEPT ![s] = <<qr>>]
    /\ scanTx' = [scanTx EXCEPT ![s] = << >>]
    /\ scanLate' = [scanLate EXCEPT ![s] =
            /\ ~IsEmptyInput(qr) /\ ~DecryptRaises(qr)
            /\ ~SplitRaises(decrypt_qr_data(qr))
            /\ \E u \in UnitById(decrypt_qr_data(qr)[2].val) :
                    u.IsPersonEntered]
    /\ IF IsEmptyInput(qr)
         THEN /\ scanResult' = [scanResult EXCEPT ![s] =
                    ScanReply(2, "QR code cannot be empty", << >>)]
              /\ scanPc' = [scanPc EXCEPT ![s] = "done"]
              /\ scanBody' = [scanBody EXCEPT ![s] = << >>]
         ELSE IF DecryptRaises(qr)
         THEN /\ scanResult' = [scanResult EXCEPT ![s] =
                    ScanReply(2, "Invalid QR code", << >>)]
              /\ scanPc' = [scanPc EXCEPT ![s] = "done"]
              /\ scanBody' = [scanBody EXCEPT ![s] = << >>]
         ELSE IF SplitRaises(decrypt_qr_data(qr))
         THEN /\ scanResult' = [scanResult EXCEPT ![s] =
                    ScanReply(2, "Invalid QR code format", << >>)]
              /\ scanPc' = [scanPc EXCEPT ![s] = "done"]
              /\ scanBody' = [scanBody EXCEPT ![s] = << >>]
         ELSE /\ scanResult' = [scanResult EXCEPT ![s] = << >>]
              /\ scanPc' = [scanPc EXCEPT ![s] = "select"]
              /\ scanBody' = [scanBody EXCEPT ![s] =
                    <<[ticket_issue_id |-> decrypt_qr_data(qr)[1],
                       details_id |-> decrypt_qr_data(qr)[2].val]>>]
    /\ UNCHANGED <<dbVars, verVars, crVars, enqVars>>

\* ScanSelect without the "already used" return.
ScanSelectNoGuard(s) ==
    /\ scanPc[s] = "select"
    /\ IF UnitById(scanBody[s][1].details_id) = {}
         THEN /\ scanResult' = [scanResult EXCEPT ![s] =
                    ScanReply(2, "Invalid ticket", << >>)]
              /\ scanPc' = [scanPc EXCEPT ![s] = "done"]
         ELSE /\ scanPc' = [scanPc EXCEPT ![s] = "update"]
              /\ UNCHANGED scanResult
    /\ UNCHANGED <<dbVars, scanBody, scanTx, scanLate, scanQr, verVars,
                   crVars, enqVars>>

\* Lines 331-352: SELECT IsPersonEntered, then the two early returns.
ScanSelect(s) ==
    /\ scanPc[s] = "select"
    /\ LET rows == UnitById(scanBody[s][1].details_id) IN
         IF rows = {}
         THEN /\ scanResult' = [scanResult EXCEPT ![s] =
                    ScanReply(2, "Invalid ticket", << >>)]
              /\ scanPc' = [scanPc EXCEPT ![s] = "done"]
         ELSE IF \E row \in rows : row.IsPersonEntered
         THEN /\ scanResult' = [scanResult EXCEPT ![s] =
                    ScanReply(1, "Ticket already used", << >>)]
              /\ scanPc' = [scanPc EXCEPT ![s] = "done"]
         ELSE /\ scanPc' = [scanPc EXCEPT ![s] = "update"]
              /\ UNCHANGED scanResult
    /\ UNCHANGED <<dbVars, scanBody, scanTx, scanLate, scanQr, verVars,
                   crVars, enqVars>>

\* Lines 357-362: UPDATE ... SET IsPersonEntered = 1, EntryDateTime = GETDATE()
\* WHERE TicketIssueDetailsId = ?  -- waits for the row's lock; the WHERE
\* clause does not test IsPersonEntered.
ScanUpdate(s) ==
    /\ scanPc[s] = "update"
    /\ LET id == scanBody[s][1].details_id IN
         /\ \A l \in detailsLock : l[1] # id
         /\ detailsLock' = detailsLock \cup {<<id, s>>}
    /\ scanTx' = [scanTx EXCEPT ![s] = <<clock>>]
    /\ clock' = clock + 1
    /\ scanPc' = [scanPc EXCEPT ![s] = "commit"]
    /\ UNCHANGED <<rateRow, TicketIssue, TicketIssueDetails, nextDetailsId,
                   issueLock, scanBody, scanResult, scanLate, scanQr,
                   verVars, crVars, enqVars>>

\* ScanCommit of an UPDATE that sets IsPersonEntered alone.
ScanCommitFlagOnly(s) ==
    /\ scanPc[s] = "commit"
    /\ LET id == scanBody[s][1].details_id
           issue == scanBody[s][1].ticket_issue_id IN
         /\ TicketIssueDetails' =
                {IF u.TicketIssueDetailsId = id
                   THEN [u EXCEPT !.IsPersonEntered = TRUE]
                   ELSE u : u \in TicketIssueDetails}
         /\ detailsLock' = detailsLock \ {<<id, s>>}
         /\ scanResult' = [scanResult EXCEPT ![s] =
                IF issue.num
                  THEN ScanReply(0, "Entry allowed", <<issue.val, id>>)
                  ELSE ScanReply(2, "Internal server error", << >>)]
    /\ scanTx' = [scanTx EXCEPT ![s] = << >>]
    /\ scanPc' = [scanPc EXCEPT ![s] = "done"]
    /\ UNCHANGED <<rateRow, TicketIssue, nextDetailsId, clock, issueLock,
                   scanBody, scanLate, scanQr, verVars, crVars, enqVars>>

\* Lines 364-380: conn.commit(), then the reply is built; int(ticket_issue_id)
\* raises on a non-numeric field and the catch-all answers instead.
ScanCommit(s) ==
    /\ scanPc[s] = "commit"
    /\ LET id == scanBody[s][1].details_id
           issue == scanBody[s][1].ticket_issue_id IN
         /\ TicketIssueDetails' =
                {IF u.TicketIssueDetailsId = id
                   THEN [u EXCEPT !.IsPersonEntered = TRUE,
                                  !.EntryDateTime = scanTx[s]]
                   ELSE u : u \in TicketIssueDetails}
         /\ detailsLock' = detailsLock \ {<<id, s>>}
         /\ scanResult' = [scanResult EXCEPT ![s] =
                IF issue.num
                  THEN ScanReply(0, "Entry allowed", <<issue.val, id>>)
                  ELSE ScanReply(2, "Internal server error", << >>)]
    /\ scanTx' = [scanTx EXCEPT ![s] = << >>]
    /\ scanPc' = [scanPc EXCEPT ![s] = "done"]
    /\ UNCHANGED <<rateRow, TicketIssue, nextDetailsId, clock, issueLock,
                   scanBody, scanLate, scanQr, verVars, crVars, enqVars>>

Scan(s) ==
    \/ \E qr \in ScanInputs : ScanStart(s, qr)
    \/ ScanSelect(s)
    \/ ScanUpdate(s)
    \/ ScanCommit(s)

(* --------------------- verify_payment (/ticket/verifyPayment) ------------ *)
VerifyReply(status, message) == <<[status |-> status, message |-> message]>>
\* ticket_issue_id values a client may send: the rows' ids and an unknown one.
VerifyIds == 1..(Len(TicketIssue) + 1)

\* Line 1003: "existing_transaction and existing_transaction.startswith('pay_')"
AlreadyProcessed(existing_transaction) ==
    Truthy(existing_transaction) /\ StartsWith(existing_transaction, PayPrefix)

\* "for i in range(1, ticket_count + 1)": where the loop goes with counter i.
LoopPc(i, ticket_count) == IF i <= ticket_count THEN "insert" ELSE "commit"

\* VerifyStart with a third early return: the stored count is tested against
\* the rate row's current minimum.
VerifyStartRevalidating(p, id, token) ==
    /\ verPc[p] = "idle"
    /\ verBody' = [verBody EXCEPT ![p] =
            <<[ticket_issue_id |-> id, razorpay_payment_id |-> token]>>]
    /\ verTx' = [verTx EXCEPT ![p] = << >>]
    /\ verPdf' = [verPdf EXCEPT ![p] = << >>]
    /\ verI' = [verI EXCEPT ![p] = 0]
    /\ verRetry' = [verRetry EXCEPT ![p] =
            \E q \in Verifiers :
                /\ verPc[q] = "done"
                /\ verBody[q][1].ticket_issue_id = id
                /\ verResult[q][1].message = "Payment verification failed"]
    /\ IF id \notin ExistingIssues
         THEN /\ verResult' = [verResult EXCEPT ![p] =
                    VerifyReply(0, "TicketIssue not found")]
              /\ verPc' = [verPc EXCEPT ![p] = "done"]
              /\ verRow' = [verRow EXCEPT ![p] = << >>]
              /\ verStartTxn' = [verStartTxn EXCEPT ![p] = None]
              /\ verStale' = [verStale EXCEPT ![p] = FALSE]
         ELSE /\ verStartTxn' = [verStartTxn EXCEPT ![p] =
                    TicketIssue[id].TransactionId]
              /\ verRow' = [verRow EXCEPT ![p] = <<TicketIssue[id]>>]
              /\ verStale' = [verStale EXCEPT ![p] =
                    rateRow.MinimumTickets > TicketIssue[id].TicketCount]
              /\ IF AlreadyProcessed(TicketIssue[id].TransactionId)
                   THEN /\ verResult' = [verResult EXCEPT ![p] =
                              VerifyReply(0, "Payment already processed")]
                        /\ verPc' = [verPc EXCEPT ![p] = "done"]
                   ELSE IF rateRow.MinimumTickets > TicketIssue[id].TicketCount
                   THEN /\ verResult' = [verResult EXCEPT ![p] =
                              VerifyReply(0, "Minimum tickets required")]
                        /\ verPc' = [verPc EXCEPT ![p] = "done"]
                   ELSE /\ verResult' = [verResult EXCEPT ![p] = << >>]
                        /\ verPc' = [verPc EXCEPT ![p] = "update"]
    /\ UNCHANGED <<dbVars, scanVars, crVars, dispatched, thrVars, enqVars>>

\* VerifyStart sending the tickets again when the payment was already
\* processed.
VerifyStartResending(p, id, token) ==
    /\ verPc[p] = "idle"
    /\ verBody' = [verBody EXCEPT ![p] =
            <<[ticket_issue_id |-> id, razorpay_payment_id |-> token]>>]
    /\ verTx' = [verTx EXCEPT ![p] = << >>]
    /\ verPdf' = [verPdf EXCEPT ![p] = << >>]
    /\ verI' = [verI EXCEPT ![p] = 0]
    /\ verRetry' = [verRetry EXCEPT ![p] =
            \E q \in Verifiers :
                /\ verPc[q] = "done"
                /\ verBody[q][1].ticket_issue_id = id
                /\ verResult[q][1].message = "Payment verification failed"]
    /\ IF id \notin ExistingIssues
         THEN /\ verResult' = [verResult EXCEPT ![p] =
                    VerifyReply(0, "TicketIssue not found")]
              /\ verPc' = [verPc EXCEPT ![p] = "done"]
              /\ verRow' = [verRow EXCEPT ![p] = << >>]
              /\ verStartTxn' = [verStartTxn EXCEPT ![p] = None]
              /\ verStale' = [verStale EXCEPT ![p] = FALSE]
         ELSE /\ verStartTxn' = [verStartTxn EXCEPT ![p] =
                    TicketIssue[id].TransactionId]
              /\ verRow' = [verRow EXCEPT ![p] = <<TicketIssue[id]>>]
              /\ verStale' = [verStale EXCEPT ![p] =
                    rateRow.MinimumTickets > TicketIssue[id].TicketCount]
              /\ IF AlreadyProcessed(TicketIssue[id].TransactionId)
                   THEN /\ verResult' = [verResult EXCEPT ![p] =
                              VerifyReply(0, "Payment already processed")]
                        /\ verPc' = [verPc EXCEPT ![p] = "done"]
                   ELSE /\ verResult' = [verResult EXCEPT ![p] = << >>]
                        /\ verPc' = [verPc EXCEPT ![p] = "update"]
    /\ thrPc' = [thrPc EXCEPT ![p] =
            IF id \in ExistingIssues
                  /\ AlreadyProcessed(TicketIssue[id].TransactionId)
              THEN "email" ELSE @]
    /\ UNCHANGED <<dbVars, scanVars, crVars, dispatched, thrI, thrLog, enqVars>>

\* Lines 969-1007: SELECT the TicketIssue row, then the two early returns.
VerifyStart(p, id, token) ==
    /\ verPc[p] = "idle"
    /\ verBody' = [verBody EXCEPT ![p] =
            <<[ticket_issue_id |-> id, razorpay_payment_id |-> token]>>]
    /\ verTx' = [verTx EXCEPT ![p] = << >>]
    /\ verPdf' = [verPdf EXCEPT ![p] = << >>]
    /\ verI' = [verI EXCEPT ![p] = 0]
    /\ verRetry' = [verRetry EXCEPT ![p] =
            \E q \in Verifiers :
                /\ verPc[q] = "done"
                /\ verBody[q][1].ticket_issue_id = id
                /\ verResult[q][1].message = "Payment verification failed"]
    /\ IF id \notin ExistingIssues
         THEN /\ verResult' = [verResult EXCEPT ![p] =
                    VerifyReply(0, "TicketIssue not found")]
              /\ verPc' = [verPc EXCEPT ![p] = "done"]
              /\ verRow' = [verRow EXCEPT ![p] = << >>]
              /\ verStartTxn' = [verStartTxn EXCEPT ![p] = None]
              /\ verStale' = [verStale EXCEPT ![p] = FALSE]
         ELSE /\ verStartTxn' = [verStartTxn EXCEPT ![p] =
                    TicketIssue[id].TransactionId]
              /\ verRow' = [verRow EXCEPT ![p] = <<TicketIssue[id]>>]
              /\ verStale' = [verStale EXCEPT ![p] =
                    rateRow.MinimumTickets > TicketIssue[id].TicketCount]
              /\ IF AlreadyProcessed(TicketIssue[id].TransactionId)
                   THEN /\ verResult' = [verResult EXCEPT ![p] =
                              VerifyReply(0, "Payment already processed")]
                        /\ verPc' = [verPc EXCEPT ![p] = "done"]
                   ELSE /\ verResult' = [verResult EXCEPT ![p] = << >>]
                        /\ verPc' = [verPc EXCEPT ![p] = "update"]
    /\ UNCHANGED <<dbVars, scanVars, crVars, dispatched, thrVars, enqVars>>

\* Lines 1028-1037: UPDATE TicketIssue SET TransactionId = ? WHERE
\* TicketIssueId = ?  -- waits for the row's lock, tests nothing else.
VerifyUpdate(p) ==
    /\ verPc[p] = "update"
    /\ LET id == verBody[p][1].ticket_issue_id IN
         /\ \A l \in issueLock : l[1] # id
         /\ issueLock' = issueLock \cup {<<id, p>>}
    /\ verTx' = [verTx EXCEPT ![p] = << >>]
    /\ verI' = [verI EXCEPT ![p] = 1]
    /\ verPc' = [verPc EXCEPT ![p] = LoopPc(1, verRow[p][1].TicketCount)]
    /\ UNCHANGED <<rateRow, TicketIssue, TicketIssueDetails, nextDetailsId,
                   clock, detailsLock, scanVars, crVars, verBody, verRow,
                   verPdf, verResult, verStartTxn, verRetry, verStale,
                   dispatched, thrVars, enqVars>>

\* Lines 1041-1047: INSERT INTO TicketIssueDetails (TicketIssueId), the new
\* identity comes back; the row is the connection's own until it commits.
VerifyInsert(p) ==
    /\ verPc[p] = "insert"
    /\ verTx' = [verTx EXCEPT ![p] = Append(@,
            [TicketIssueDetailsId |-> nextDetailsId,
             TicketIssueId |-> verBody[p][1].ticket_issue_id,
             QRCode |-> NullQr,
             IsPersonEntered |-> FALSE,
             EntryDateTime |-> << >>])]
    /\ nextDetailsId' = nextDetailsId + 1
    /\ verPc' = [verPc EXCEPT ![p] = "qr"]
    /\ UNCHANGED <<rateRow, TicketIssue, TicketIssueDetails, clock, issueLock,
                   detailsLock, scanVars, crVars, verBody, verRow, verI,
                   verPdf, verResult, verStartTxn, verRetry, verStale,
                   dispatched, thrVars, enqVars>>

\* VerifyQrPdf handing the codec its two ids in the other order.
VerifyQrPdfSwapped(p) ==
    /\ verPc[p] = "qr"
    /\ LET n == Len(verTx[p])
           details_id == verTx[p][n].TicketIssueDetailsId
           qr_string == generate_qr_string(details_id,
                            verBody[p][1].ticket_issue_id, clock) IN
         /\ verTx' = [verTx EXCEPT ![p][n].QRCode = qr_string]
         /\ verPdf' = [verPdf EXCEPT ![p] = Append(@, details_id)]
    /\ verI' = [verI EXCEPT ![p] = @ + 1]
    /\ verPc' = [verPc EXCEPT ![p] =
            LoopPc(verI[p] + 1, verRow[p][1].TicketCount)]
    /\ UNCHANGED <<dbVars, scanVars, crVars, verBody, verRow, verResult,
                   verStartTxn, verRetry, verStale, dispatched, thrVars,
                   enqVars>>

\* VerifyQrPdf encoding the ticket number i instead of details_id.
VerifyQrPdfTicketNo(p) ==
    /\ verPc[p] = "qr"
    /\ LET n == Len(verTx[p])
           details_id == verTx[p][n].TicketIssueDetailsId
           qr_string == generate_qr_string(verBody[p][1].ticket_issue_id,
                                           verI[p], clock) IN
         /\ verTx' = [verTx EXCEPT ![p][n].QRCode = qr_string]
         /\ verPdf' = [verPdf EXCEPT ![p] = Append(@, details_id)]
    /\ verI' = [verI EXCEPT ![p] = @ + 1]
    /\ verPc' = [verPc EXCEPT ![p] =
            LoopPc(verI[p] + 1, verRow[p][1].TicketCount)]
    /\ UNCHANGED <<dbVars, scanVars, crVars, verBody, verRow, verResult,
                   verStartTxn, verRetry, verStale, dispatched, thrVars,
                   enqVars>>

\* Lines 1049-1074: generate_qr_string, UPDATE ... SET QRCode, then
\* create_ticket_pdf and pdf_files.append, all before the commit.
VerifyQrPdf(p) ==
    /\ verPc[p] = "qr"
    /\ LET n == Len(verTx[p])
           details_id == verTx[p][n].TicketIssueDetailsId
           qr_string == generate_qr_string(verBody[p][1].ticket_issue_id,
                                           details_id, clock) IN
         /\ verTx' = [verTx EXCEPT ![p][n].QRCode = qr_string]
         /\ verPdf' = [verPdf EXCEPT ![p] = Append(@, details_id)]
    /\ verI' = [verI EXCEPT ![p] = @ + 1]
    /\ verPc' = [verPc EXCEPT ![p] =
            LoopPc(verI[p] + 1, verRow[p][1].TicketCount)]
    /\ UNCHANGED <<dbVars, scanVars, crVars, verBody, verRow, verResult,
                   verStartTxn, verRetry, verStale, dispatched, thrVars,
                   enqVars>>

\* Lines 1076-1091: conn.commit() publishes the settlement reference and the
\* inserted rows, the notification thread is started, the reply is status 1.
VerifyCommit(p) ==
    /\ verPc[p] = "commit"
    /\ LET id == verBody[p][1].ticket_issue_id IN
         /\ TicketIssue' = [TicketIssue EXCEPT ![id].TransactionId =
                                verBody[p][1].razorpay_payment_id]
         /\ issueLock' = issueLock \ {<<id, p>>}
    /\ TicketIssueDetails' = TicketIssueDetails \cup
            {verTx[p][k] : k \in 1..Len(verTx[p])}
    /\ verTx' = [verTx EXCEPT ![p] = << >>]
    /\ dispatched' = dispatched + 1
    /\ thrPc' = [thrPc EXCEPT ![p] = "email"]
    /\ verResult' = [verResult EXCEPT ![p] =
            VerifyReply(1, "Payment verified and tickets issued successfully")]
    /\ verPc' = [verPc EXCEPT ![p] = "done"]
    /\ UNCHANGED <<rateRow, nextDetailsId, clock, detailsLock, scanVars,
                   crVars, verBody, verRow, verI, verPdf, verStartTxn,
                   verRetry, verStale, thrI, thrLog, enqVars>>

\* VerifyFail on a connection that keeps what it wrote (no rollback).
VerifyFailNoRollback(p) ==
    /\ verPc[p] \in {"update", "insert", "qr", "commit"}
    /\ issueLock' = issueLock \ {<<verBody[p][1].ticket_issue_id, p>>}
    /\ TicketIssueDetails' = TicketIssueDetails \cup
            {verTx[p][k] : k \in 1..Len(verTx[p])}
    /\ verTx' = [verTx EXCEPT ![p] = << >>]
    /\ verResult' = [verResult EXCEPT ![p] =
            VerifyReply(0, "Payment verification failed")]
    /\ verPc' = [verPc EXCEPT ![p] = "done"]
    /\ UNCHANGED <<rateRow, TicketIssue, nextDetailsId, clock, detailsLock,
                   scanVars, crVars, verBody, verRow, verI, verPdf,
                   verStartTxn, verRetry, verStale, dispatched, thrVars,
                   enqVars>>

\* Lines 1093-1098: any exception of a statement, of the codec or of the PDF
\* renderer: conn.rollback() drops the connection's writes and its lock.
VerifyFail(p) ==
    /\ verPc[p] \in {"update", "insert", "qr", "commit"}
    /\ issueLock' = issueLock \ {<<verBody[p][1].ticket_issue_id, p>>}
    /\ verTx' = [verTx EXCEPT ![p] = << >>]
    /\ verResult' = [verResult EXCEPT ![p] =
            VerifyReply(0, "Payment verification failed")]
    /\ verPc' = [verPc EXCEPT ![p] = "done"]
    /\ UNCHANGED <<rateRow, TicketIssue, TicketIssueDetails, nextDetailsId,
                   clock, detailsLock, scanVars, crVars, verBody, verRow,
                   verI, verPdf, verStartTxn, verRetry, verStale,
                   dispatched, thrVars, enqVars>>

\* The reply of line 1097: the message carries str(e), here the call that
\* raised.
VerifyError(status, message, error) ==
    <<[status |-> status, message |-> message, error |-> error]>>

\* Lines 1060-1072 and 1093-1098: create_ticket_pdf raises for the unit at
\* hand, after its row was inserted and its QRCode set; the same except
\* clause rolls the connection back.
VerifyPdfFail(p) ==
    /\ verPc[p] = "qr"
    /\ issueLock' = issueLock \ {<<verBody[p][1].ticket_issue_id, p>>}
    /\ verTx' = [verTx EXCEPT ![p] = << >>]
    /\ verResult' = [verResult EXCEPT ![p] =
            VerifyError(0, "Payment verification failed", "create_ticket_pdf")]
    /\ verPc' = [verPc EXCEPT ![p] = "done"]
    /\ UNCHANGED <<rateRow, TicketIssue, TicketIssueDetails, nextDetailsId,
                   clock, detailsLock, scanVars, crVars, verBody, verRow,
                   verI, verPdf, verStartTxn, verRetry, verStale,
                   dispatched, thrVars, enqVars>>

Verify(p) ==
    \/ \E id \in VerifyIds, token \in Tokens : VerifyStart(p, id, token)
    \/ VerifyUpdate(p)
    \/ VerifyInsert(p)
    \/ VerifyQrPdf(p)
    \/ VerifyCommit(p)
    \/ VerifyFail(p)
    \/ VerifyPdfFail(p)

(* ------------- send_email_and_whatsapp (the notification thread) --------- *)
\* services.mail_service and services.whatsapp_service are not part of the
\* sources at hand: a delivery is sent, fails inside the service (which
\* returns), or fails with an exception that reaches the caller.
DeliveryOutcomes == {"sent", "failed", "raised"}
Delivery(channel, ticket_no, outcome) ==
    [channel |-> channel, ticket_no |-> ticket_no, outcome |-> outcome]
\* "for i, pdf in enumerate(pdf_files, start=1)": where the loop goes.
ThreadPc(i, pdf_files) == IF i <= Len(pdf_files) THEN "whatsapp" ELSE "done"

\* DispatchEmail called in the handler's own try block instead of a thread:
\* the exception reaches the except clause and becomes the reply.
DispatchEmailInline(p, outcome) ==
    /\ thrPc[p] = "email"
    /\ thrLog' = [thrLog EXCEPT ![p] =
            Append(@, Delivery("email", 0, outcome))]
    /\ IF outcome = "raised"
         THEN /\ thrPc' = [thrPc EXCEPT ![p] = "dead"]
              /\ verResult' = [verResult EXCEPT ![p] =
                    VerifyError(0, "Payment verification failed",
                                "send_ticket_email")]
              /\ UNCHANGED thrI
         ELSE /\ thrI' = [thrI EXCEPT ![p] = 1]
              /\ thrPc' = [thrPc EXCEPT ![p] = ThreadPc(1, verPdf[p])]
              /\ UNCHANGED verResult
    /\ UNCHANGED <<dbVars, scanVars, crVars, verPc, verBody, verRow, verI,
                   verTx, verPdf, verStartTxn, verRetry, verStale,
                   dispatched, enqVars>>

\* Lines 272-285: send_ticket_email, once, with all the PDFs; an exception
\* ends the thread, nothing in the function catches it.
DispatchEmail(p, outcome) ==
    /\ thrPc[p] = "email"
    /\ thrLog' = [thrLog EXCEPT ![p] =
            Append(@, Delivery("email", 0, outcome))]
    /\ IF outcome = "raised"
         THEN /\ thrPc' = [thrPc EXCEPT ![p] = "dead"]
              /\ UNCHANGED thrI
         ELSE /\ thrI' = [thrI EXCEPT ![p] = 1]
              /\ thrPc' = [thrPc EXCEPT ![p] = ThreadPc(1, verPdf[p])]
    /\ UNCHANGED <<dbVars, scanVars, crVars, verPc, verBody, verRow, verI,
                   verTx, verPdf, verResult, verStartTxn, verRetry, verStale,
                   dispatched, enqVars>>

\* Lines 287-294: send_whatsapp_with_pdf for the PDF the loop is at.
DispatchWhatsapp(p, outcome) ==
    /\ thrPc[p] = "whatsapp"
    /\ thrLog' = [thrLog EXCEPT ![p] =
            Append(@, Delivery("whatsapp", thrI[p], outcome))]
    /\ IF outcome = "raised"
         THEN /\ thrPc' = [thrPc EXCEPT ![p] = "dead"]
              /\ UNCHANGED thrI
         ELSE /\ thrI' = [thrI EXCEPT ![p] = @ + 1]
              /\ thrPc' = [thrPc EXCEPT ![p] =
                    ThreadPc(thrI[p] + 1, verPdf[p])]
    /\ UNCHANGED <<dbVars, scanVars, crVars, verPc, verBody, verRow, verI,
                   verTx, verPdf, verResult, verStartTxn, verRetry, verStale,
                   dispatched, enqVars>>

Dispatch(p) ==
    \/ \E outcome \in DeliveryOutcomes : DispatchEmail(p, outcome)
    \/ \E outcome \in DeliveryOutcomes : DispatchWhatsapp(p, outcome)

(* ---------------- create_razorpay_order (/ticket/addTicketIssue) --------- *)
CreateReply(code, detail, ids) ==
    <<[code |-> code, detail |-> detail, ids |-> ids]>>
\* ticket_count as posted: absent, a number, or text int() cannot read.
CountInputs == {<< >>, <<Junk>>} \cup {<<Num(n)>> : n \in (0 - 1)..MaxCount}
PaisePerRupee == 100

\* CreateStart without the minimum check of line 910.
CreateStartNoMinimum(c, known, count) ==
    /\ crPc[c] = "idle"
    /\ crBody' = [crBody EXCEPT ![c] =
            <<[known |-> known, ticket_count |-> count]>>]
    /\ crAtStart' = [crAtStart EXCEPT ![c] =
            <<[orders |-> Len(orders), rows |-> Len(TicketIssue)]>>]
    /\ LET ticket_count == BodyGet(count, Num(0)) IN
         IF ~known \/ ~ticket_count.num
         THEN /\ crResult' = [crResult EXCEPT ![c] =
                    CreateReply(IF known THEN 500 ELSE 400, "rejected", << >>)]
              /\ crPc' = [crPc EXCEPT ![c] = "done"]
              /\ UNCHANGED <<crCount, crTotal>>
         ELSE /\ crPc' = [crPc EXCEPT ![c] = "gateway"]
              /\ crCount' = [crCount EXCEPT ![c] = <<ticket_count.val>>]
              /\ crTotal' = [crTotal EXCEPT ![c] =
                    <<FloatTimes(FloatOfCents(rateRow.TicketRate),
                                 ticket_count.val)>>]
              /\ UNCHANGED crResult
    /\ UNCHANGED <<dbVars, scanVars, verVars, crOrder, orders, enqVars>>

\* Lines 886-914: SELECT the rate row, the minimum check, the amounts:
\* "rate = float(row[0])" and "total_amount = rate * ticket_count".
\* known: whether the posted ids name a TicketClassification row.
CreateStart(c, known, count) ==
    /\ crPc[c] = "idle"
    /\ crBody' = [crBody EXCEPT ![c] =
            <<[known |-> known, ticket_count |-> count]>>]
    /\ crAtStart' = [crAtStart EXCEPT ![c] =
            <<[orders |-> Len(orders), rows |-> Len(TicketIssue)]>>]
    /\ LET ticket_count == BodyGet(count, Num(0)) IN
         IF ~known
         THEN /\ crResult' = [crResult EXCEPT ![c] =
                    CreateReply(400, "Invalid ticket", << >>)]
              /\ crPc' = [crPc EXCEPT ![c] = "done"]
              /\ UNCHANGED <<crCount, crTotal>>
         ELSE IF ~ticket_count.num
         THEN /\ crResult' = [crResult EXCEPT ![c] =
                    CreateReply(500, "exception", << >>)]
              /\ crPc' = [crPc EXCEPT ![c] = "done"]
              /\ UNCHANGED <<crCount, crTotal>>
         ELSE IF ticket_count.val < rateRow.MinimumTickets
         THEN /\ crResult' = [crResult EXCEPT ![c] =
                    CreateReply(400, "Minimum tickets required", << >>)]
              /\ crPc' = [crPc EXCEPT ![c] = "done"]
              /\ crCount' = [crCount EXCEPT ![c] = <<ticket_count.val>>]
              /\ UNCHANGED crTotal
         ELSE /\ crPc' = [crPc EXCEPT ![c] = "gateway"]
              /\ crCount' = [crCount EXCEPT ![c] = <<ticket_count.val>>]
              /\ crTotal' = [crTotal EXCEPT ![c] =
                    <<FloatTimes(FloatOfCents(rateRow.TicketRate),
                                 ticket_count.val)>>]
              /\ UNCHANGED crResult
    /\ UNCHANGED <<dbVars, scanVars, verVars, crOrder, orders, enqVars>>

\* Lines 914-921: "total_amount_paise = int(total_amount * 100)", then
\* razorpay_client.order.create; the gateway answers with an order or raises.
CreateGateway(c, accepted) ==
    /\ crPc[c] = "gateway"
    /\ IF accepted
         THEN /\ orders' = Append(orders,
                    FloatToInt(FloatTimes(crTotal[c][1], PaisePerRupee)))
              /\ crOrder' = [crOrder EXCEPT ![c] = <<Len(orders) + 1>>]
              /\ crPc' = [crPc EXCEPT ![c] = "insert"]
              /\ UNCHANGED crResult
         ELSE /\ crResult' = [crResult EXCEPT ![c] =
                    CreateReply(500, "exception", << >>)]
              /\ crPc' = [crPc EXCEPT ![c] = "done"]
              /\ UNCHANGED <<orders, crOrder>>
    /\ UNCHANGED <<dbVars, scanVars, verVars, crBody, crCount, crTotal,
                   crAtStart, enqVars>>

\* CreateInsert storing the gateway order's id as the TransactionId.
CreateInsertOrderAsTxn(c, stored) ==
    /\ crPc[c] = "insert"
    /\ IF stored
         THEN /\ TicketIssue' = Append(TicketIssue,
                    [TicketCount |-> crCount[c][1],
                     TotalAmount |-> crTotal[c][1],
                     TransactionId |-> Str(<<"order_", "A">>)])
              /\ crResult' = [crResult EXCEPT ![c] = CreateReply(200, "ok",
                    <<crOrder[c][1], Len(TicketIssue) + 1>>)]
         ELSE /\ crResult' = [crResult EXCEPT ![c] =
                    CreateReply(500, "exception", << >>)]
              /\ UNCHANGED TicketIssue
    /\ crPc' = [crPc EXCEPT ![c] = "done"]
    /\ UNCHANGED <<rateRow, TicketIssueDetails, nextDetailsId, clock,
                   issueLock, detailsLock, scanVars, verVars, crBody, crCount,
                   crTotal, crOrder, crAtStart, orders, enqVars>>

\* Lines 925-960: INSERT INTO TicketIssue with TransactionId "" and commit, or
\* the statement raises and the handler rolls back and answers 500.
CreateInsert(c, stored) ==
    /\ crPc[c] = "insert"
    /\ IF stored
         THEN /\ TicketIssue' = Append(TicketIssue,
                    [TicketCount |-> crCount[c][1],
                     TotalAmount |-> crTotal[c][1],
                     TransactionId |-> Str(<< >>)])
              /\ crResult' = [crResult EXCEPT ![c] = CreateReply(200, "ok",
                    <<crOrder[c][1], Len(TicketIssue) + 1>>)]
         ELSE /\ crResult' = [crResult EXCEPT ![c] =
                    CreateReply(500, "exception", << >>)]
              /\ UNCHANGED TicketIssue
    /\ crPc' = [crPc EXCEPT ![c] = "done"]
    /\ UNCHANGED <<rateRow, TicketIssueDetails, nextDetailsId, clock,
                   issueLock, detailsLock, scanVars, verVars, crBody, crCount,
                   crTotal, crOrder, crAtStart, orders, enqVars>>

Create(c) ==
    \/ \E known \in BOOLEAN, count \in CountInputs :
            CreateStart(c, known, count)
    \/ \E accepted \in BOOLEAN : CreateGateway(c, accepted)
    \/ \E stored \in BOOLEAN : CreateInsert(c, stored)

(* ---------------- save_ticket_enquiry (/addTicketEnquiry) --------------- *)
EnquiryReply(code, detail) == <<[code |-> code, detail |-> detail]>>

\* Lines 171-210: the count test before the try block, whose HTTPException
\* goes to handle_http_exception (lines 43-45); then, inside the try block,
\* the rate row and the minimum test, whose HTTPExceptions are caught by the
\* handler's own "except Exception" (lines 255-257), which rolls back and
\* answers 500.  known: whether ticket_master_id names a rate row.
EnquiryStart(e, known, count) ==
    /\ enqPc[e] = "idle"
    /\ enqBody' = [enqBody EXCEPT ![e] =
            <<[known |-> known, ticket_count |-> count]>>]
    /\ LET ticket_count == BodyGet(count, Junk) IN
         IF ~ticket_count.num \/ ticket_count.val <= 0
         THEN /\ enqResult' = [enqResult EXCEPT ![e] =
                    EnquiryReply(400, "Invalid ticket count")]
              /\ enqPc' = [enqPc EXCEPT ![e] = "done"]
              /\ UNCHANGED enqTotal
         ELSE IF ~known \/ ticket_count.val < rateRow.MinimumTickets
         THEN /\ enqResult' = [enqResult EXCEPT ![e] =
                    EnquiryReply(500, "error")]
              /\ enqPc' = [enqPc EXCEPT ![e] = "done"]
              /\ UNCHANGED enqTotal
         ELSE /\ enqPc' = [enqPc EXCEPT ![e] = "insert"]
              /\ enqTotal' = [enqTotal EXCEPT ![e] =
                    <<rateRow.TicketRate * ticket_count.val>>]
              /\ UNCHANGED enqResult
    /\ UNCHANGED <<dbVars, scanVars, verVars, crVars, TicketEnquiry>>

\* Lines 212-257: INSERT INTO TicketEnquiry and commit, or the statement
\* raises and the handler rolls back and answers 500.
EnquiryInsert(e, stored) ==
    /\ enqPc[e] = "insert"
    /\ IF stored
         THEN /\ TicketEnquiry' = Append(TicketEnquiry,
                    [TicketCount |-> enqBody[e][1].ticket_count[1].val,
                     TotalAmount |-> enqTotal[e][1]])
              /\ enqResult' = [enqResult EXCEPT ![e] =
                    EnquiryReply(200, "Ticket enquiry saved successfully")]
         ELSE /\ enqResult' = [enqResult EXCEPT ![e] =
                    EnquiryReply(500, "error")]
              /\ UNCHANGED TicketEnquiry
    /\ enqPc' = [enqPc EXCEPT ![e] = "done"]
    /\ UNCHANGED <<dbVars, scanVars, verVars, crVars, enqBody, enqTotal>>

Enquire(e) ==
    \/ \E known \in BOOLEAN, count \in CountInputs :
            EnquiryStart(e, known, count)
    \/ \E stored \in BOOLEAN : EnquiryInsert(e, stored)

(* ----------------------- rate administration ---------------------------- *)
\* No handler of src/main.py writes TicketClassification: its rows are
\* maintained outside the service, and the minimum of a rate class may be
\* changed at any time.
ChangeMinimum(m) ==
    /\ m # rateRow.MinimumTickets
    /\ rateRow' = [rateRow EXCEPT !.MinimumTickets = m]
    /\ UNCHANGED <<TicketIssue, TicketIssueDetails, nextDetailsId, clock,
                   issueLock, detailsLock, scanVars, verVars, crVars,
                   enqVars>>

(* ---------------------------- specification ----------------------------- *)
Next ==
    \/ \E s \in Scanners : Scan(s)
    \/ \E p \in Verifiers : Verify(p)
    \/ \E p \in Verifiers : Dispatch(p)
    \/ \E c \in Creators : Create(c)
    \/ \E e \in Enquirers : Enquire(e)

\* The whole service: every request of every kind, in any interleaving.
Spec == Init /\ [][Next]_vars


\* The issuance half alone: order creation and payment confirmation.
NextIssue ==
    \/ \E p \in Verifiers : Verify(p)
    \/ Create("c1")
SpecIssue == Init /\ [][NextIssue]_vars


\* The admission half: the scanners, with one confirmation issuing the units.
NextAdmission ==
    \/ \E s \in Scanners : Scan(s)
    \/ Verify("v1")
    \/ Create("c1")
SpecAdmission == Init /\ [][NextAdmission]_vars

\* One purchase, one confirmation and the notification thread it starts.
NextDispatch ==
    \/ Verify("v1")
    \/ Dispatch("v1")
    \/ Create("c1")

\* One purchase and one confirmation while the rate class is re-priced.
NextRequote ==
    \/ Verify("v1")
    \/ Create("c1")
    \/ \E m \in 0..MaxMin : ChangeMinimum(m)
SpecRequote == Init /\ [][NextRequote]_vars

\* A purchase that is accepted: a known rate row, a positive count, the
\* gateway and the INSERT both succeed.
Purchase(c) ==
    \/ \E n \in 1..MaxCount : CreateStart(c, TRUE, <<Num(n)>>)
    \/ CreateGateway(c, TRUE)
    \/ CreateInsert(c, TRUE)

\* A confirmation of an existing intent with a "pay_" token that meets no
\* fault.
Confirm(p) ==
    \/ \E id \in ExistingIssues : VerifyStart(p, id, Str(<<"pay_", "A">>))
    \/ VerifyUpdate(p)
    \/ VerifyInsert(p)
    \/ VerifyQrPdf(p)
    \/ VerifyCommit(p)

\* Two accepted purchases and the confirmations of their intents.
NextTwoIntents ==
    \/ \E p \in Verifiers : Confirm(p)
    \/ \E c \in Creators : Purchase(c)
SpecTwoIntents == Init /\ [][NextTwoIntents]_vars
SpecDispatch == Init /\ [][NextDispatch]_vars

\* The enquiry form alone.
NextEnquiry == \E e \in Enquirers : Enquire(e)
SpecEnquiry == Init /\ [][NextEnquiry]_vars

(* ------------------------------ properties ------------------------------ *)
ScanDone(s) == scanPc[s] = "done"
ScanStatus(s) == scanResult[s][1].status
VerDone(p) == verPc[p] = "done"
VerIssue(p) == verBody[p][1].ticket_issue_id
VerToken(p) == verBody[p][1].razorpay_payment_id
VerSucceeded(p) == VerDone(p) /\ verResult[p][1].status = 1
VerFailed(p) ==
    VerDone(p) /\ verResult[p][1].message = "Payment verification failed"
AtomicPhase == {"update", "insert", "qr", "commit"}

\* C1: two scans of the same unit that both found it never both answer
\* "Entry allowed" (status 0): one is admitted, the other gets "Ticket
\* already used" (status 1).
C1_ExactlyOneAdmitted ==
    \A s1, s2 \in Scanners :
        ( /\ s1 # s2
          /\ ScanDone(s1) /\ ScanDone(s2)
          /\ ScanStatus(s1) \in {0, 1} /\ ScanStatus(s2) \in {0, 1}
          /\ scanBody[s1][1].details_id = scanBody[s2][1].details_id )
        => ScanStatus(s1) # ScanStatus(s2)

\* C2: a confirmation that begins when the intent's settlement reference
\* already is the non-empty token it carries (the token an earlier call was
\* accepted with) and that meets no storage fault answers "Payment already
\* processed", and the intent owns exactly TicketCount units.
C2_SecondCallAlreadyProcessed ==
    \A p \in Verifiers :
        ( /\ VerDone(p) /\ ~VerFailed(p)
          /\ Truthy(verStartTxn[p])
          /\ verStartTxn[p] = VerToken(p)
          /\ TicketIssue[VerIssue(p)].TicketCount > 0 )
        => /\ verResult[p][1].message = "Payment already processed"
           /\ Cardinality(UnitsOf(VerIssue(p))) =
                  TicketIssue[VerIssue(p)].TicketCount

\* C3: of two confirmations with "pay_" tokens that both read the same intent
\* as unsettled (so they overlapped), at most one reports success, and the
\* intent owns exactly TicketCount units once one has.
C3_OneConcurrentIssuer ==
    \A p, q \in Verifiers :
        ( /\ p # q
          /\ VerDone(p) /\ VerDone(q)
          /\ VerIssue(p) = VerIssue(q)
          /\ VerIssue(p) \in ExistingIssues
          /\ TicketIssue[VerIssue(p)].TicketCount > 0
          /\ ~Truthy(verStartTxn[p]) /\ ~Truthy(verStartTxn[q])
          /\ StartsWith(VerToken(p), PayPrefix)
          /\ StartsWith(VerToken(q), PayPrefix) )
        => /\ ~(VerSucceeded(p) /\ VerSucceeded(q))
           /\ (VerSucceeded(p) =>
                  Cardinality(UnitsOf(VerIssue(p))) =
                      TicketIssue[VerIssue(p)].TicketCount)

\* C4: in every committed ledger each intent owns no unit or exactly
\* TicketCount units, and every unit carries a credential.
C4_AllOrNothing ==
    /\ \A id \in ExistingIssues :
          Cardinality(UnitsOf(id)) \in {0, TicketIssue[id].TicketCount}
    /\ \A u \in TicketIssueDetails : u.QRCode.kind = "cipher"

\* C5: a scan that begins after its unit was admitted changes no
\* TicketIssueDetails row in any of its steps and answers "Ticket already
\* used" (status 1).
C5_ReplayLeavesEntry ==
    [][\A s \in Scanners :
          (scanLate[s] /\ scanPc'[s] # scanPc[s])
          => /\ TicketIssueDetails' = TicketIssueDetails
             /\ (scanPc'[s] = "done" => scanResult'[s][1].status = 1)]_vars
C5_Witness ==
    \E s1, s2 \in Scanners :
        /\ scanLate[s2] /\ ScanDone(s2) /\ ScanStatus(s2) = 1
        /\ ScanDone(s1) /\ ScanStatus(s1) = 0
        /\ scanBody[s1] = scanBody[s2]

\* C6: every unit's owning intent has a non-empty settlement reference.
C6_UnitsOnlyForSettled ==
    \A u \in TicketIssueDetails :
        Truthy(TicketIssue[u.TicketIssueId].TransactionId)

\* C7: no step of a confirmation that began when the intent already had a
\* non-empty settlement reference changes a TicketIssue row or adds a unit.
C7_SettledOnce ==
    [][\A p \in Verifiers :
          (Truthy(verStartTxn[p]) /\ verPc'[p] # verPc[p])
          => /\ TicketIssue' = TicketIssue
             /\ TicketIssueDetails' = TicketIssueDetails]_vars

\* C8: a confirmation changes the committed ledger in no step but its
\* commit; one that fails in its atomic phase answers "Payment verification
\* failed" with the ledger as it was; and a confirmation that then succeeds
\* on the intent, still without units, leaves it exactly TicketCount units,
\* each with its credential.
C8_RollbackThenRetry ==
    [][\A p \in Verifiers :
          (verPc[p] \in AtomicPhase /\ verPc'[p] # verPc[p])
          => IF verPc'[p] = "done" /\ verResult'[p][1].status = 1
               THEN UnitsOf(VerIssue(p)) = {}
                    => /\ Cardinality({u \in TicketIssueDetails' :
                                u.TicketIssueId = VerIssue(p)}) =
                              TicketIssue[VerIssue(p)].TicketCount
                       /\ \A u \in TicketIssueDetails' :
                              u.QRCode.kind = "cipher"
               ELSE /\ TicketIssue' = TicketIssue
                    /\ TicketIssueDetails' = TicketIssueDetails
                    /\ (verPc'[p] = "done" =>
                          verResult'[p][1].message =
                              "Payment verification failed")]_vars
C8_Witness ==
    \E p, q \in Verifiers :
        /\ VerFailed(p) /\ Len(verPdf[p]) > 0
        /\ VerSucceeded(q) /\ verRetry[q]
        /\ VerIssue(p) = VerIssue(q)
        /\ TicketIssue[VerIssue(q)].TicketCount > 0
        /\ Cardinality(UnitsOf(VerIssue(q))) =
               TicketIssue[VerIssue(q)].TicketCount

\* The ticket_count a create request carries, after the default of line 909.
CrCount(c) == BodyGet(crBody[c][1].ticket_count, Num(0))
CrRejected(c) ==
    /\ crPc[c] = "done"
    /\ crResult[c][1].code = 400
    /\ Len(orders) = crAtStart[c][1].orders
    /\ Len(TicketIssue) = crAtStart[c][1].rows

\* C9: a create request whose ticket count is below the rate row's
\* MinimumTickets is answered 400, and it creates no gateway order and no
\* TicketIssue row.
C9_BelowMinimumRejected ==
    \A c \in Creators :
        ( /\ crPc[c] # "idle"
          /\ crBody[c][1].known
          /\ CrCount(c).num
          /\ CrCount(c).val < rateRow.MinimumTickets )
        => CrRejected(c)
C9_Witness ==
    \E c \in Creators :
        /\ crPc[c] = "done"
        /\ crBody[c][1].known
        /\ CrCount(c).num /\ CrCount(c).val < rateRow.MinimumTickets
        /\ CrCount(c).val > 0
        /\ crResult[c][1].code = 400

\* C10: a create request whose ticket count is zero, negative or absent is
\* answered 400, and it creates no gateway order and no TicketIssue row,
\* whatever MinimumTickets is.
C10_NonPositiveRejected ==
    \A c \in Creators :
        ( /\ crPc[c] # "idle"
          /\ CrCount(c).num
          /\ CrCount(c).val <= 0 )
        => CrRejected(c)

\* The call's transaction has committed: only VerifyCommit answers status 1.
VerCommitted(p) == VerSucceeded(p)
ThreadStarted(p) == thrPc[p] # "none"

\* C11: no ticket PDF has been rendered by a confirmation, and its
\* notification thread has not been started, unless its transaction has
\* committed.
C11_RenderAfterCommit ==
    \A p \in Verifiers :
        (Len(verPdf[p]) > 0 \/ ThreadStarted(p)) => VerCommitted(p)

\* C12: a confirmation that fails because create_ticket_pdf raised has still
\* committed: the intent carries its settlement reference and owns at least
\* TicketCount units.
C12_IssuedDespitePdfFailure ==
    \A p \in Verifiers :
        ( /\ VerDone(p)
          /\ "error" \in DOMAIN verResult[p][1]
          /\ verResult[p][1].error = "create_ticket_pdf" )
        => /\ TicketIssue[VerIssue(p)].TransactionId = VerToken(p)
           /\ Cardinality(UnitsOf(VerIssue(p))) >=
                  TicketIssue[VerIssue(p)].TicketCount

\* C13: the notification thread is detached from the confirmation: the
\* status-1 reply is produced at the commit, when the thread has only been
\* started; no delivery, sent or failed, changes a reply or the ledger; a
\* thread exists exactly for each successful confirmation, and it attempts
\* no delivery twice.
C13_DetachedDispatch ==
    /\ [](/\ \A p \in Verifiers : ThreadStarted(p) <=> VerSucceeded(p)
          /\ dispatched = Cardinality({p \in Verifiers : VerSucceeded(p)})
          /\ \A p \in Verifiers : \A j, k \in 1..Len(thrLog[p]) :
                ( /\ thrLog[p][j].channel = thrLog[p][k].channel
                  /\ thrLog[p][j].ticket_no = thrLog[p][k].ticket_no )
                => j = k)
    /\ [][\A p \in Verifiers :
            /\ thrLog'[p] # thrLog[p]
                => /\ verResult' = verResult
                   /\ TicketIssue' = TicketIssue
                   /\ TicketIssueDetails' = TicketIssueDetails
            /\ (verPc[p] = "commit" /\ verPc'[p] = "done"
                    /\ verResult'[p][1].status = 1)
                => thrPc'[p] = "email" /\ thrLog'[p] = << >>]_vars
C13_Witness ==
    \E p \in Verifiers :
        /\ VerSucceeded(p)
        /\ thrPc[p] = "dead"
        /\ Len(thrLog[p]) >= 2
        /\ TicketIssue[VerIssue(p)].TransactionId = VerToken(p)

\* C14: a notification thread that has ended has attempted every delivery:
\* the email and one WhatsApp message per ticket PDF, whatever failed.
C14_DeliveriesIsolated ==
    \A p \in Verifiers :
        thrPc[p] \in {"done", "dead"}
        => /\ \E k \in 1..Len(thrLog[p]) : thrLog[p][k].channel = "email"
           /\ \A i \in 1..Len(verPdf[p]) :
                 \E k \in 1..Len(thrLog[p]) :
                    /\ thrLog[p][k].channel = "whatsapp"
                    /\ thrLog[p][k].ticket_no = i

\* C15: a unit has an entry time exactly when its entry flag is set, and a
\* set entry flag is never cleared.
C15_EntryFlagAndTime ==
    /\ [](\A u \in TicketIssueDetails :
              u.IsPersonEntered <=> u.EntryDateTime # << >>)
    /\ [][\A u \in TicketIssueDetails :
            u.IsPersonEntered
            => \E w \in TicketIssueDetails' :
                  /\ w.TicketIssueDetailsId = u.TicketIssueDetailsId
                  /\ w.IsPersonEntered]_vars
C15_Witness ==
    /\ \E u \in TicketIssueDetails :
          u.IsPersonEntered /\ u.EntryDateTime # << >>
    /\ \E u \in TicketIssueDetails :
          ~u.IsPersonEntered /\ u.EntryDateTime = << >>
    /\ \E s \in Scanners : ScanDone(s) /\ ScanStatus(s) = 0

ScanMessage(s) == scanResult[s][1].message
\* The payload has the shape "<id>|<number>|<ts>" under the key.
WellFormed(qr) ==
    /\ qr.kind = "cipher"
    /\ Len(decrypt_qr_data(qr)) = 3
    /\ decrypt_qr_data(qr)[2].num

\* C17: a scan of a missing, empty or blank payload ends at once with "QR
\* code cannot be empty"; a scan of a payload that does not decrypt, or not
\* to three fields with a numeric unit id, ends at once with "Invalid QR
\* code" / "Invalid QR code format"; neither ever reaches the SELECT; and a
\* scan of a well-formed payload naming no unit ends with "Invalid ticket".
C17_EarlyExitsInOrder ==
    \A s \in Scanners :
        scanPc[s] # "idle"
        => LET qr == scanQr[s][1] IN
             /\ qr.kind \in {"null", "empty", "blank"}
                => /\ ScanDone(s) /\ scanBody[s] = << >>
                   /\ ScanMessage(s) = "QR code cannot be empty"
             /\ (qr.kind \notin {"null", "empty", "blank"} /\ ~WellFormed(qr))
                => /\ ScanDone(s) /\ scanBody[s] = << >>
                   /\ ScanMessage(s) \in
                          {"Invalid QR code", "Invalid QR code format"}
             /\ ( /\ WellFormed(qr) /\ ScanDone(s)
                  /\ UnitById(decrypt_qr_data(qr)[2].val) = {} )
                => ScanMessage(s) = "Invalid ticket"
C17_Witness ==
    \E s1, s2 \in Scanners :
        /\ ScanDone(s1) /\ scanQr[s1][1].kind = "blank"
        /\ ScanMessage(s1) = "QR code cannot be empty"
        /\ ScanDone(s2) /\ scanQr[s2][1].kind = "cipher"
        /\ ScanMessage(s2) = "Invalid QR code format"
        /\ TicketIssueDetails # {}

\* C18: the amount of every gateway order, in paise, is exactly the rate
\* times the ticket count times 100 (the rate in hundredths times the count).
C18_ExactAmounts ==
    \A c \in Creators :
        crOrder[c] # << >>
        => orders[crOrder[c][1]] = rateRow.TicketRate * crCount[c][1]

\* C16: every committed unit carries a credential that decrypts to three
\* fields, the first its intent's id and the second its own id, and no two
\* units, of one intent or of two, carry the same credential.
C16_CredentialNamesItsUnit ==
    /\ \A u \in TicketIssueDetails :
          /\ ~IsEmptyInput(u.QRCode) /\ ~DecryptRaises(u.QRCode)
          /\ Len(decrypt_qr_data(u.QRCode)) = 3
          /\ decrypt_qr_data(u.QRCode)[1] = Num(u.TicketIssueId)
          /\ decrypt_qr_data(u.QRCode)[2] = Num(u.TicketIssueDetailsId)
    /\ \A u, w \in TicketIssueDetails :
          u.QRCode = w.QRCode => u = w
C16_Witness ==
    /\ \A p \in Verifiers : VerSucceeded(p)
    /\ \E u, w \in TicketIssueDetails :
          /\ u.TicketIssueId = w.TicketIssueId
          /\ u.TicketIssueDetailsId # w.TicketIssueDetailsId
    /\ \E u, w \in TicketIssueDetails :
          u.TicketIssueId # w.TicketIssueId

C20_RevalidatesMinimum ==
    \A p \in Verifiers :
        ( /\ verStale[p] /\ VerDone(p)
          /\ TicketIssue[VerIssue(p)].TicketCount > 0 )
        => /\ verResult[p][1].status = 0
           /\ ~Truthy(TicketIssue[VerIssue(p)].TransactionId)
           /\ UnitsOf(VerIssue(p)) = {}

\* C20 as the handler has it: the minimum is not read again at
\* confirmation.  A confirmation of an unsettled intent that begins when
\* MinimumTickets is above the stored TicketCount either fails on a fault or
\* succeeds, setting the settlement reference and issuing exactly the
\* stored TicketCount units.
C20_StoredCountHonoured ==
    \A p \in Verifiers :
        (verStale[p] /\ VerDone(p) /\ ~AlreadyProcessed(verStartTxn[p]))
        => \/ VerFailed(p)
           \/ /\ VerSucceeded(p)
              /\ TicketIssue[VerIssue(p)].TransactionId = VerToken(p)
              /\ Cardinality(UnitsOf(VerIssue(p))) =
                     TicketIssue[VerIssue(p)].TicketCount
C20_Witness ==
    \E p \in Verifiers :
        /\ verStale[p] /\ VerSucceeded(p)
        /\ TicketIssue[VerIssue(p)].TicketCount > 0
        /\ Cardinality(UnitsOf(VerIssue(p))) =
               TicketIssue[VerIssue(p)].TicketCount

\* C21: a create request that answers 200 has added exactly one TicketIssue
\* row, with an empty TransactionId and no units, and its reply carries the
\* gateway order and that row's id; and a row's TransactionId and units
\* change in no step but the commit of a confirmation of that row.
C21_IntentCreatedUnsettled ==
    [][/\ \A c \in Creators :
            (crPc[c] = "insert" /\ crPc'[c] = "done"
                /\ crResult'[c][1].code = 200)
            => LET id == Len(TicketIssue) + 1 IN
                 /\ Len(TicketIssue') = id
                 /\ SubSeq(TicketIssue', 1, id - 1) = TicketIssue
                 /\ TicketIssue'[id].TransactionId = Str(<< >>)
                 /\ TicketIssue'[id].TicketCount = crCount[c][1]
                 /\ {u \in TicketIssueDetails' : u.TicketIssueId = id} = {}
                 /\ crResult'[c][1].ids = <<crOrder[c][1], id>>
       /\ \A id \in ExistingIssues :
            ( \/ TicketIssue'[id] # TicketIssue[id]
              \/ {u \in TicketIssueDetails' : u.TicketIssueId = id}
                     # UnitsOf(id) )
            => \E p \in Verifiers :
                  /\ verPc[p] = "commit" /\ verPc'[p] = "done"
                  /\ VerIssue(p) = id
                  /\ verResult'[p][1].status = 1]_vars
C21_Witness ==
    \E c \in Creators : \E p \in Verifiers :
        /\ crPc[c] = "done" /\ crResult[c][1].code = 200
        /\ verPc[p] = "commit" /\ Len(verTx[p]) > 0
        /\ VerIssue(p) = crResult[c][1].ids[2]
        /\ TicketIssue[VerIssue(p)].TransactionId = Str(<< >>)
        /\ UnitsOf(VerIssue(p)) = {}

\* C22: a step of a scan changes TicketIssueDetails exactly when it is the
\* step that answers "Entry allowed" (status 0); a scan that ends with any
\* other reply has changed no row.
C22_LedgerChangesOnlyOnAdmitted ==
    [][\A s \in Scanners :
          scanPc'[s] # scanPc[s]
          => ( TicketIssueDetails' # TicketIssueDetails
               <=> (scanPc'[s] = "done" /\ scanResult'[s][1].status = 0) )]_vars

\* C23: the ids in an "Entry allowed" reply name a unit that this call
\* marked entered and the intent that owns it in TicketIssueDetails.
C23_ReplyNamesOwner ==
    \A s \in Scanners :
        (ScanDone(s) /\ ScanStatus(s) = 0)
        => /\ scanResult[s][1].ids[2] = scanBody[s][1].details_id
           /\ \E u \in UnitById(scanResult[s][1].ids[2]) :
                 /\ u.IsPersonEntered
                 /\ u.TicketIssueId = scanResult[s][1].ids[1]

EarlyExits == {"TicketIssue not found", "Payment already processed"}

\* C24: a confirmation that ends at its first step, with "TicketIssue not
\* found" or "Payment already processed", has changed no TicketIssue and no
\* TicketIssueDetails row, rendered no PDF and started no notification
\* thread.
C24_EarlyExitTouchesNothing ==
    /\ [][\A p \in Verifiers :
            (verPc[p] = "idle" /\ verPc'[p] = "done")
            => /\ verResult'[p][1].message \in EarlyExits
               /\ TicketIssue' = TicketIssue
               /\ TicketIssueDetails' = TicketIssueDetails
               /\ issueLock' = issueLock
               /\ dispatched' = dispatched]_vars
    /\ [](\A p \in Verifiers :
            (VerDone(p) /\ verResult[p][1].message \in EarlyExits)
            => verPdf[p] = << >> /\ ~ThreadStarted(p))
C24_Witness ==
    \E p, q \in Verifiers :
        /\ VerSucceeded(q) /\ VerDone(p)
        /\ verResult[p][1].message = "Payment already processed"
        /\ VerIssue(p) = VerIssue(q)
        /\ UnitsOf(VerIssue(p)) # {}
        /\ ~ThreadStarted(p)

\* C25: a create request that obtained a gateway order and has finished,
\* with whatever reply, has added a TicketIssue row.
C25_NoOrphanOrder ==
    \A c \in Creators :
        (crPc[c] = "done" /\ crOrder[c] # << >> /\ crCount[c][1] > 0)
        => Len(TicketIssue) > crAtStart[c][1].rows

\* C26: an enquiry with a positive integer count ends with 404 when no rate
\* row is found and with 400 when the count is below MinimumTickets, and
\* TicketEnquiry holds one row per enquiry answered 200 and no other.
C26_ValidationNot500 ==
    /\ \A e \in Enquirers :
          enqPc[e] = "done"
          => LET known == enqBody[e][1].known
                 n == BodyGet(enqBody[e][1].ticket_count, Junk) IN
               (n.num /\ n.val > 0)
               => /\ ~known => enqResult[e][1].code = 404
                  /\ (known /\ n.val < rateRow.MinimumTickets)
                        => enqResult[e][1].code = 400
    /\ Len(TicketEnquiry) =
          Cardinality({e \in Enquirers :
                          enqPc[e] = "done" /\ enqResult[e][1].code = 200})

====
